---- MODULE Spec2Model ----
(***************************************************************************)
(* A model of app.py, the GroupMe remote command bot.                      *)
(*                                                                         *)
(* Text is a sequence of characters (Python code points).  An ASCII        *)
(* character is the one-character string; a non-ASCII code point of the    *)
(* source is named ("EMDASH", "ELLIPSIS", "STOPWATCH", ...) and is one     *)
(* element, as it is one code point for Python's len().                    *)
(*                                                                         *)
(* The service keeps no state between requests.  The variables record the  *)
(* last operation: the request, what the environment answered (the shell,  *)
(* the temperature probe, the delivery endpoint), and what the operation   *)
(* did (texts handed to send_message, payloads posted, commands executed,  *)
(* processes left behind, log entries, the HTTP response), until the       *)
(* operation is over (Finish).                                             *)
(***************************************************************************)
EXTENDS Integers, Sequences, FiniteSets, TLC

VARIABLES started, op, request, env, response, sends, posts, log, execs,
          procs, probes, dispatched, raised

vars == <<started, op, request, env, response, sends, posts, log, execs,
          procs, probes, dispatched, raised>>

----------------------------------------------------------------------------
(* Program constants                                                       *)

\* CMD_TIMEOUT = 30
CMD_TIMEOUT == 30

\* if len(text) > 950: text = text[:950] + ...
TRUNCATE_AT == 950

----------------------------------------------------------------------------
(* Bounds of the model                                                     *)

\* most child processes a command's shell has running when subprocess.run
\* stops waiting for it
MaxChildren == 1

\* length of the longest output a command writes
MaxOutputLen == 1100

\* length of the longest command argument of an inbound !run
MaxCmdLen == 960

----------------------------------------------------------------------------
(* Text helpers: what the Python string operations do                      *)

\* the characters str.strip() removes, among those of the model's alphabet
Whitespace == {" ", "\t", "\n", "\r"}

Digits == <<"0", "1", "2", "3", "4", "5", "6", "7", "8", "9">>

RECURSIVE NatToStr(_)
NatToStr(n) ==
    IF n < 10 THEN <<Digits[n + 1]>>
    ELSE NatToStr(n \div 10) \o <<Digits[(n % 10) + 1]>>

\* str(int), as an f-string renders {proc.returncode} and {CMD_TIMEOUT}
IntToStr(n) == IF n < 0 THEN <<"-">> \o NatToStr(0 - n) ELSE NatToStr(n)

\* zero-padded decimal of width w (strftime's %Y %m %d %H %M %S)
RECURSIVE ZeroPad(_, _)
ZeroPad(s, w) == IF Len(s) >= w THEN s ELSE ZeroPad(<<"0">> \o s, w)

\* first index >= i holding a non-whitespace character, Len(s)+1 if none
RECURSIVE FirstNonWs(_, _)
FirstNonWs(s, i) ==
    IF i > Len(s) THEN i
    ELSE IF s[i] \notin Whitespace THEN i
    ELSE FirstNonWs(s, i + 1)

\* last index <= i holding a non-whitespace character, 0 if none
RECURSIVE LastNonWs(_, _)
LastNonWs(s, i) ==
    IF i < 1 THEN 0
    ELSE IF s[i] \notin Whitespace THEN i
    ELSE LastNonWs(s, i - 1)

\* str.strip()
Strip(s) ==
    LET a == FirstNonWs(s, 1)
        b == LastNonWs(s, Len(s))
    IN  IF a > b THEN <<>> ELSE SubSeq(s, a, b)

\* str.startswith(p)
StartsWith(s, p) == Len(s) >= Len(p) /\ SubSeq(s, 1, Len(p)) = p

\* s[n:]
DropFirst(s, n) == SubSeq(s, n + 1, Len(s))

\* s[:n]
TakeFirst(s, n) == SubSeq(s, 1, IF Len(s) < n THEN Len(s) ELSE n)

\* "\n".join(parts)
RECURSIVE JoinLines(_)
JoinLines(parts) ==
    IF parts = <<>> THEN <<>>
    ELSE IF Len(parts) = 1 THEN parts[1]
    ELSE parts[1] \o <<"\n">> \o JoinLines(Tail(parts))

\* n copies of the character c
Repeat(c, n) == [i \in 1..n |-> c]

----------------------------------------------------------------------------
(* The program's string literals                                           *)

HELP_TEXT ==
    <<"ROBOT", " ", "L", "e", " ", "P", "o", "t", "a", "t", "o", " ", "B",
      "o", "t", " ", "EMDASH", " ", "a", "v", "a", "i", "l", "a", "b", "l",
      "e", " ", "c", "o", "m", "m", "a", "n", "d", "s", ":", "\n", " ",
      " ", "!", "h", "e", "l", "p", " ", " ", " ", " ", " ", " ", " ", " ",
      " ", " ", "EMDASH", " ", "s", "h", "o", "w", " ", "t", "h", "i", "s",
      " ", "m", "e", "s", "s", "a", "g", "e", "\n", " ", " ", "!", "t",
      "e", "m", "p", " ", " ", " ", " ", " ", " ", " ", " ", " ", " ",
      "EMDASH", " ", "c", "u", "r", "r", "e", "n", "t", " ", "C", "P", "U",
      " ", "t", "e", "m", "p", "e", "r", "a", "t", "u", "r", "e", "\n",
      " ", " ", "!", "r", "u", "n", " ", "<", "c", "m", "d", ">", " ", " ",
      " ", " ", " ", "EMDASH", " ", "e", "x", "e", "c", "u", "t", "e", " ",
      "a", " ", "s", "h", "e", "l", "l", " ", "c", "o", "m", "m", "a", "n",
      "d", " ", "a", "n", "d", " ", "r", "e", "t", "u", "r", "n", " ", "o",
      "u", "t", "p", "u", "t", "\n">>

\* "\n…(truncated)"
TRUNCATED_MARK ==
    <<"\n", "ELLIPSIS", "(", "t", "r", "u", "n", "c", "a", "t", "e", "d",
      ")">>

\* "Usage: !run <command>"
USAGE_TEXT ==
    <<"U", "s", "a", "g", "e", ":", " ", "!", "r", "u", "n", " ", "<", "c",
      "o", "m", "m", "a", "n", "d", ">">>

\* "!help", "!temp", "!run " and "!"
BANG_HELP == <<"!", "h", "e", "l", "p">>
BANG_TEMP == <<"!", "t", "e", "m", "p">>
BANG_RUN == <<"!", "r", "u", "n", " ">>
BANG == <<"!">>

\* f"⏱ Command timed out after {CMD_TIMEOUT}s."
TimedOutText ==
    <<"STOPWATCH", " ", "C", "o", "m", "m", "a", "n", "d", " ", "t", "i",
      "m", "e", "d", " ", "o", "u", "t", " ", "a", "f", "t", "e", "r", " ">>
    \o IntToStr(CMD_TIMEOUT) \o <<"s", ".">>

\* f"❌ Execution error: {exc}"
ExecutionErrorText(exc) ==
    <<"CROSSMARK", " ", "E", "x", "e", "c", "u", "t", "i", "o", "n", " ",
      "e", "r", "r", "o", "r", ":", " ">> \o exc

\* f"[stderr]\n{errors}"
StderrBlock(errors) ==
    <<"[", "s", "t", "d", "e", "r", "r", "]", "\n">> \o errors

\* f"(command exited with code {proc.returncode}, no output)"
NoOutputText(returncode) ==
    <<"(", "c", "o", "m", "m", "a", "n", "d", " ", "e", "x", "i", "t", "e",
      "d", " ", "w", "i", "t", "h", " ", "c", "o", "d", "e", " ">>
    \o IntToStr(returncode)
    \o <<",", " ", "n", "o", " ", "o", "u", "t", "p", "u", "t", ")">>

\* f"{millideg / 1000:.1f}": one decimal, rounded to the nearest tenth.  The
\* fallback readings of the model are never half way between two tenths,
\* where the result would depend on the binary value of the quotient.
OneDecimal(millideg) ==
    LET a == IF millideg < 0 THEN 0 - millideg ELSE millideg
        tenths == (a + 50) \div 100
        sign == IF millideg < 0 THEN <<"-">> ELSE <<>>
    IN  sign \o NatToStr(tenths \div 10) \o <<".">> \o NatToStr(tenths % 10)

\* f"temp={millideg / 1000:.1f}'C"
TempText(millideg) ==
    <<"t", "e", "m", "p", "=">> \o OneDecimal(millideg) \o <<"'", "C">>

\* f"Error reading temperature: {exc}"
TempErrorText(exc) ==
    <<"E", "r", "r", "o", "r", " ", "r", "e", "a", "d", "i", "n", "g", " ",
      "t", "e", "m", "p", "e", "r", "a", "t", "u", "r", "e", ":", " ">> \o exc

\* f"🌡 {get_cpu_temp()}"
TempReply(reading) == <<"THERMOMETER", " ">> \o reading

\* f"$ {command}\n{run_shell(command)}"
RunReply(command, result) == <<"$", " ">> \o command \o <<"\n">> \o result

\* datetime.now().strftime("%Y-%m-%d %H:%M:%S")
Strftime(t) ==
    ZeroPad(NatToStr(t.year), 4) \o <<"-">> \o ZeroPad(NatToStr(t.month), 2)
    \o <<"-">> \o ZeroPad(NatToStr(t.day), 2) \o <<" ">>
    \o ZeroPad(NatToStr(t.hour), 2) \o <<":">>
    \o ZeroPad(NatToStr(t.minute), 2) \o <<":">>
    \o ZeroPad(NatToStr(t.second), 2)

\* the homing beacon's message
BeaconText(ip, now) ==
    <<"SATELLITE", " ", "L", "e", " ", "P", "o", "t", "a", "t", "o", " ",
      "b", "o", "t", " ", "i", "s", " ", "O", "N", "L", "I", "N", "E", "\n">>
    \o <<"CLOCK", " ", "T", "i", "m", "e", " ", ":", " ">> \o now
    \o <<"\n", "GLOBE", " ", "I", "P", " ", " ", " ", ":", " ">> \o ip
    \o <<"\n", "T", "y", "p", "e", " ", "!", "h", "e", "l", "p", " ", "f",
         "o", "r", " ", "a", "v", "a", "i", "l", "a", "b", "l", "e", " ", "c",
         "o", "m", "m", "a", "n", "d", "s", ".">>

\* get_local_ip()'s value when the socket calls fail
UNKNOWN_IP == <<"u", "n", "k", "n", "o", "w", "n">>

----------------------------------------------------------------------------
(* The helpers of app.py                                                   *)

NONE == "none"

\* the failures of requests.post that derive from requests.RequestException
IsRequestException(exc) == exc \in {"ConnectionError", "Timeout"}

\* Truncate cutting at the platform's 1000 characters instead of 950
Truncate_at_cap(text) ==
    IF Len(text) > 1000
    THEN TakeFirst(text, 1000) \o TRUNCATED_MARK
    ELSE text

\* the text send_message puts in the payload
Truncate(text) ==
    IF Len(text) > TRUNCATE_AT
    THEN TakeFirst(text, TRUNCATE_AT) \o TRUNCATED_MARK
    ELSE text

\* send_message with `except requests.Timeout` for the except clause
send_message_timeout_only(text, delivery) ==
    [ payload |-> Truncate(text),
      logged  |-> IF delivery = "Timeout"
                  THEN <<"Failed to send GroupMe message">>
                  ELSE <<>>,
      raised  |-> IF delivery \in {"ok", "Timeout"} THEN NONE ELSE delivery ]

\* send_message(text) when requests.post ends as `delivery` ("ok", or the
\* exception it raises): the payload posted, the error logged, and the
\* exception that leaves the function
send_message(text, delivery) ==
    [ payload |-> Truncate(text),
      logged  |-> IF delivery # "ok" /\ IsRequestException(delivery)
                  THEN <<"Failed to send GroupMe message">>
                  ELSE <<>>,
      raised  |-> IF delivery = "ok" \/ IsRequestException(delivery)
                  THEN NONE
                  ELSE delivery ]

\* get_local_ip(): the address of the outbound interface, or "unknown"
get_local_ip(net) == IF net.ok THEN net.address ELSE UNKNOWN_IP

\* get_cpu_temp() when vcgencmd ends as t.primary and the thermal zone file
\* reads as t.fallback: the reading returned, or the exception raised
get_cpu_temp(t) ==
    IF t.primary = "exit" /\ t.returncode = 0
    THEN [value |-> Strip(t.stdout), raised |-> NONE]
    ELSE IF t.primary \in {"exit", "FileNotFoundError", "TimeoutExpired"}
    THEN IF t.fallback = "read"
         THEN [value |-> TempText(t.millideg), raised |-> NONE]
         ELSE [value |-> TempErrorText(t.exc), raised |-> NONE]
    ELSE [value |-> <<>>, raised |-> t.primary]

\* run_shell reporting a timeout with the output captured so far attached
run_shell_partial_output(command, o) ==
    IF o.kind = "exit"
    THEN LET output == Strip(o.stdout)
             errors == Strip(o.stderr)
             parts  == (IF output # <<>> THEN <<output>> ELSE <<>>)
                       \o (IF errors # <<>> THEN <<StderrBlock(errors)>>
                           ELSE <<>>)
         IN  IF parts = <<>> THEN NoOutputText(o.returncode)
             ELSE JoinLines(parts)
    ELSE IF o.kind = "TimeoutExpired"
    THEN JoinLines(<<TimedOutText, Strip(o.stdout), Strip(o.stderr)>>)
    ELSE ExecutionErrorText(o.exc)

\* run_shell(command) when subprocess.run ends as `o`: the text returned
run_shell(command, o) ==
    IF o.kind = "exit"
    THEN LET output == Strip(o.stdout)
             errors == Strip(o.stderr)
             parts  == (IF output # <<>> THEN <<output>> ELSE <<>>)
                       \o (IF errors # <<>> THEN <<StderrBlock(errors)>>
                           ELSE <<>>)
         IN  IF parts = <<>> THEN NoOutputText(o.returncode)
             ELSE JoinLines(parts)
    ELSE IF o.kind = "TimeoutExpired" THEN TimedOutText
    ELSE ExecutionErrorText(o.exc)

\* the processes subprocess.run(command, shell=True, timeout=CMD_TIMEOUT)
\* leaves when it returns or raises.  It waits for the shell: run to its
\* exit, or on TimeoutExpired killed and waited for.  The call passes neither
\* start_new_session nor a process group and signals nothing else, so the
\* o.children processes the shell started and that outlive it keep running.
subprocess_run(command, o) ==
    IF o.kind \in {"exit", "TimeoutExpired"}
    THEN {[role |-> "shell", n |-> 0, state |-> "reaped"]}
         \cup {[role |-> "child", n |-> i, state |-> "running"] :
                 i \in 1..o.children}
    ELSE {}

----------------------------------------------------------------------------
(* Command dispatch and the webhook                                        *)

\* what an operation did: the texts handed to send_message, the payloads
\* handed to requests.post, the errors logged, the commands run through the
\* shell, the processes they left, the temperature queries made, and the
\* exception that ended it
NoEffects ==
    [ sends |-> <<>>, posts |-> <<>>, log |-> <<>>, execs |-> <<>>,
      procs |-> {}, probes |-> 0, raised |-> NONE ]

\* a call send_message(text), as the effects of the caller
Sending(text, delivery) ==
    LET s == send_message(text, delivery)
    IN  [NoEffects EXCEPT !.sends = <<text>>, !.posts = <<s.payload>>,
                          !.log = s.logged, !.raised = s.raised]

\* handle_command sending the echoed command and its result as two messages
handle_command_two_messages(text, e) ==
    LET t == Strip(text)
    IN  IF t = BANG_HELP THEN Sending(HELP_TEXT, e.delivery)
        ELSE IF t = BANG_TEMP
        THEN LET r == get_cpu_temp(e.temp)
             IN  IF r.raised # NONE
                 THEN [NoEffects EXCEPT !.probes = 1, !.raised = r.raised]
                 ELSE [Sending(TempReply(r.value), e.delivery)
                          EXCEPT !.probes = 1]
        ELSE IF StartsWith(t, BANG_RUN)
        THEN LET command == Strip(DropFirst(t, 5))
                 first == Sending(<<"$", " ">> \o command, e.delivery)
                 second == Sending(run_shell(command, e.shell), e.delivery)
             IN  IF command = <<>> THEN Sending(USAGE_TEXT, e.delivery)
                 ELSE [NoEffects EXCEPT
                          !.sends = first.sends \o second.sends,
                          !.posts = first.posts \o second.posts,
                          !.log = first.log \o second.log,
                          !.execs = <<command>>,
                          !.procs = subprocess_run(command, e.shell)]
        ELSE NoEffects

\* handle_command(text) in the environment e
handle_command(text, e) ==
    LET t == Strip(text)
    IN  IF t = BANG_HELP THEN Sending(HELP_TEXT, e.delivery)
        ELSE IF t = BANG_TEMP
        THEN LET r == get_cpu_temp(e.temp)
             IN  IF r.raised # NONE
                 THEN [NoEffects EXCEPT !.probes = 1, !.raised = r.raised]
                 ELSE [Sending(TempReply(r.value), e.delivery)
                          EXCEPT !.probes = 1]
        ELSE IF StartsWith(t, BANG_RUN)
        THEN LET command == Strip(DropFirst(t, 5))
             IN  IF command = <<>> THEN Sending(USAGE_TEXT, e.delivery)
                 ELSE [Sending(RunReply(command, run_shell(command, e.shell)),
                               e.delivery)
                          EXCEPT !.execs = <<command>>,
                                 !.procs = subprocess_run(command, e.shell)]
        ELSE NoEffects

\* `not data`: get_json(silent=True) gave None, or an empty or zero value
Falsy(data) == data.kind = "invalid" \/ ~data.truthy

\* the sender filter comparing with "Bot"
IsBotMessage_wrong_case(data) == data.sender = "Bot"

\* data.get("sender_type") == "bot"
IsBotMessage(data) == data.sender = "bot"

\* the gate testing text.strip().startswith("!")
StartsWithBang_stripped(text) == StartsWith(Strip(text), BANG)

\* text.startswith("!")
StartsWithBang(text) == StartsWith(text, BANG)

\* jsonify({...}), code: the JSON object's fields and the HTTP status
Response(code, status, reason) ==
    [code |-> code, status |-> status, reason |-> reason, ip |-> <<>>]

\* a handler that ends in an exception: Flask answers 500
InternalServerError == Response(500, "error", "unhandled exception")

AttributeError == [NoEffects EXCEPT !.raised = "AttributeError"]

\* groupme_webhook() for the request body `data` in the environment e: the
\* effects, whether handle_command was called, and the response
groupme_webhook(data, e) ==
    LET Answer(eff, called, resp) ==
            [eff |-> eff, dispatched |-> called, response |-> resp]
    IN  IF Falsy(data)
        THEN Answer(NoEffects, FALSE, Response(200, "ignored", "no JSON"))
        ELSE IF data.kind # "object"
        THEN Answer(AttributeError, FALSE, InternalServerError)
        ELSE IF IsBotMessage(data)
        THEN Answer(NoEffects, FALSE, Response(200, "ignored", "bot message"))
        ELSE IF data.textKind \in {"null", "number"}
        THEN Answer(AttributeError, FALSE, InternalServerError)
        ELSE LET text == IF data.textKind = "absent" THEN <<>> ELSE data.text
             IN  IF StartsWithBang(text)
                 THEN LET eff == handle_command(text, e)
                      IN  IF eff.raised # NONE
                          THEN Answer(eff, TRUE, InternalServerError)
                          ELSE Answer(eff, TRUE, Response(200, "ok", ""))
                 ELSE Answer(NoEffects, FALSE, Response(200, "ok", ""))

\* health()
health(net) == [Response(200, "alive", "") EXCEPT !.ip = get_local_ip(net)]

\* send_homing_beacon()
send_homing_beacon(net, now, delivery) ==
    Sending(BeaconText(get_local_ip(net), Strftime(now)), delivery)

----------------------------------------------------------------------------
(* The inputs: request bodies, and what the environment answers            *)

\* message texts: "!help", "!temp", "!run ls", "!run" and spaces, "!run",
\* " !help", "hello", "", "!help" and trailing whitespace, "!Run ls",
\* "!helpme", "!run  echo hi ", "run ls", "!run<TAB>ls", "!", "\n!temp",
\* and "!run " followed by a command of MaxCmdLen characters
Texts ==
    { BANG_HELP,
      BANG_TEMP,
      BANG_RUN \o <<"l", "s">>,
      BANG_RUN \o <<" ", " ">>,
      <<"!", "r", "u", "n">>,
      <<" ">> \o BANG_HELP,
      <<"h", "e", "l", "l", "o">>,
      <<>>,
      BANG_HELP \o <<" ", "\n">>,
      <<"!", "R", "u", "n", " ", "l", "s">>,
      BANG_HELP \o <<"m", "e">>,
      BANG_RUN \o <<" ", "e", "c", "h", "o", " ", "h", "i", " ">>,
      <<"r", "u", "n", " ", "l", "s">>,
      <<"!", "r", "u", "n", "\t", "l", "s">>,
      BANG,
      <<"\n">> \o BANG_TEMP,
      BANG_RUN \o Repeat("a", MaxCmdLen) }

Body(kind, truthy, sender, textKind, text) ==
    [ kind |-> kind, truthy |-> truthy, sender |-> sender,
      textKind |-> textKind, text |-> text ]

NoRequest == Body("none", FALSE, "absent", "absent", <<>>)

\* request bodies: no or invalid JSON; a JSON array or scalar, empty/zero or
\* not; the empty object; an object with or without sender_type, whose
\* text is absent, null, not a string, or one of Texts
Bodies ==
    { Body("invalid", FALSE, "absent", "absent", <<>>),
      Body("object", FALSE, "absent", "absent", <<>>) }
    \cup { Body(k, b, "absent", "absent", <<>>) :
             k \in {"array", "scalar"}, b \in BOOLEAN }
    \cup { Body("object", TRUE, s, k, <<>>) :
             s \in {"absent", "user", "bot"},
             k \in {"absent", "null", "number"} }
    \cup { Body("object", TRUE, s, "string", t) :
             s \in {"absent", "user", "bot"}, t \in Texts }

\* how requests.post ends
DeliveryOutcomes == {"ok", "ConnectionError", "Timeout"}

ShellOutcome(kind, stdout, stderr, returncode, children, exc) ==
    [ kind |-> kind, stdout |-> stdout, stderr |-> stderr,
      returncode |-> returncode, children |-> children, exc |-> exc ]

NoShell == ShellOutcome("unused", <<>>, <<>>, 0, 0, <<>>)

\* what a command writes to stdout: nothing, "hi\n", blank lines, and
\* outputs that bring the reply to "!run ls" just under, to and over
\* TRUNCATE_AT characters, and well over it
StdoutSamples ==
    { <<>>, <<"h", "i", "\n">>, <<" ", "\n">> }
    \cup { Repeat("x", n) :
             n \in (TRUNCATE_AT - 6 .. TRUNCATE_AT - 4) \cup {MaxOutputLen} }

StderrSamples == { <<>>, <<"e", "r", "r", "\n">> }

\* how subprocess.run(command, shell=True, ...) ends: the shell exits in
\* time, TimeoutExpired (with what was written so far), or another
\* exception; and how many processes the shell started are still running
ShellOutcomes ==
    { ShellOutcome("exit", out, err, rc, n, <<>>) :
        out \in StdoutSamples, err \in StderrSamples, rc \in {0, 1},
        n \in 0..MaxChildren }
    \cup { ShellOutcome("TimeoutExpired", out, err, 0, n, <<>>) :
             out \in {<<>>, <<"4", "2", "\n">>}, err \in StderrSamples,
             n \in 0..MaxChildren }
    \cup { ShellOutcome("OSError", <<>>, <<>>, 0, 0,
                        <<"E", "N", "O", "M", "E", "M">>) }

TempOutcome(primary, returncode, stdout, fallback, millideg, exc) ==
    [ primary |-> primary, returncode |-> returncode, stdout |-> stdout,
      fallback |-> fallback, millideg |-> millideg, exc |-> exc ]

NoTemp == TempOutcome("unused", 0, <<>>, "unused", 0, <<>>)

\* how the thermal zone file reads: an integer, or an exception
FallbackOutcomes ==
    { TempOutcome("unused", 0, <<>>, "read", m, <<>>) : m \in {45000, 38960} }
    \cup { TempOutcome("unused", 0, <<>>, "error", 0,
                       <<"E", "N", "O", "E", "N", "T">>) }

\* how the vcgencmd probe ends (exit 0 with a reading, exit 1, no such
\* binary, the 5 s timeout, permission denied), then the thermal zone file
TempOutcomes ==
    { TempOutcome("exit", 0,
                  <<"t", "e", "m", "p", "=", "4", "5", ".", "0", "'", "C",
                    "\n">>, "unused", 0, <<>>),
      TempOutcome("PermissionError", 0, <<>>, "unused", 0, <<>>) }
    \cup { [f EXCEPT !.primary = p, !.returncode = IF p = "exit" THEN 1 ELSE 0] :
             p \in {"exit", "FileNotFoundError", "TimeoutExpired"},
             f \in FallbackOutcomes }

\* whether the socket calls of get_local_ip succeed, and the address
NetOutcomes ==
    { [ok |-> TRUE, address |-> <<"1", "0", ".", "0", ".", "0", ".", "7">>],
      [ok |-> FALSE, address |-> <<>>] }

NoNet == [ok |-> FALSE, address |-> <<>>]

\* datetime.now()
Clock ==
    { [year |-> 2024, month |-> 1, day |-> 9, hour |-> 7, minute |-> 5,
       second |-> 0],
      [year |-> 2025, month |-> 12, day |-> 31, hour |-> 23, minute |-> 59,
       second |-> 59] }

NoClock ==
    [year |-> 0, month |-> 0, day |-> 0, hour |-> 0, minute |-> 0,
     second |-> 0]

Env(temp, shell, delivery, net, now) ==
    [temp |-> temp, shell |-> shell, delivery |-> delivery, net |-> net,
     now |-> now]

NoEnv == Env(NoTemp, NoShell, NONE, NoNet, NoClock)

\* an environment in which every call succeeds
QuietEnv ==
    Env(TempOutcome("exit", 0, <<"t">>, "unused", 0, <<>>),
        ShellOutcome("exit", <<>>, <<>>, 0, 0, <<>>), "ok", NoNet, NoClock)

\* the environments of a request: an outcome is drawn for each call the
\* handler makes on that request, and for no other
EnvsFor(data) ==
    LET eff == groupme_webhook(data, QuietEnv).eff
    IN  { Env(t, s, d, NoNet, NoClock) :
            t \in IF eff.probes > 0 THEN TempOutcomes ELSE {NoTemp},
            s \in IF eff.execs # <<>> THEN ShellOutcomes ELSE {NoShell},
            d \in IF eff.sends # <<>> THEN DeliveryOutcomes ELSE {NONE} }

----------------------------------------------------------------------------
(* The state machine                                                       *)

Init ==
    /\ started = FALSE
    /\ op = "none"
    /\ request = NoRequest
    /\ env = NoEnv
    /\ response = Response(0, "none", "")
    /\ sends = <<>>
    /\ posts = <<>>
    /\ log = <<>>
    /\ execs = <<>>
    /\ procs = {}
    /\ probes = 0
    /\ dispatched = FALSE
    /\ raised = NONE

\* the operation's effects become the record of the last operation
Record(eff) ==
    /\ sends' = eff.sends
    /\ posts' = eff.posts
    /\ log' = eff.log
    /\ execs' = eff.execs
    /\ procs' = eff.procs
    /\ probes' = eff.probes
    /\ raised' = eff.raised

\* the entry point: send_homing_beacon(), then app.run(...)
Startup ==
    /\ ~started
    /\ op = "none"
    /\ \E net \in NetOutcomes, now \in Clock, d \in DeliveryOutcomes :
         LET eff == send_homing_beacon(net, now, d)
         IN  /\ Record(eff)
             /\ env' = Env(NoTemp, NoShell, d, net, now)
             /\ started' = (eff.raised = NONE)
    /\ op' = "beacon"
    /\ request' = NoRequest
    /\ response' = Response(0, "none", "")
    /\ dispatched' = FALSE

\* POST /
Webhook ==
    /\ started
    /\ op = "none"
    /\ \E data \in Bodies :
         \E e \in EnvsFor(data) :
            LET r == groupme_webhook(data, e)
            IN  /\ Record(r.eff)
                /\ request' = data
                /\ env' = [e EXCEPT !.delivery =
                               IF r.eff.posts = <<>> THEN NONE ELSE @]
                /\ response' = r.response
                /\ dispatched' = r.dispatched
    /\ op' = "webhook"
    /\ UNCHANGED started

\* GET /health
Health ==
    /\ started
    /\ op = "none"
    /\ \E net \in NetOutcomes :
         /\ response' = health(net)
         /\ env' = Env(NoTemp, NoShell, NONE, net, NoClock)
    /\ Record(NoEffects)
    /\ op' = "health"
    /\ request' = NoRequest
    /\ dispatched' = FALSE
    /\ UNCHANGED started

\* the operation is over: its response is out, nothing of it is kept, and
\* the server (app.run, once the beacon is sent) takes the next request
Finish ==
    /\ op # "none"
    /\ op' = "none"
    /\ request' = NoRequest
    /\ env' = NoEnv
    /\ response' = Response(0, "none", "")
    /\ Record(NoEffects)
    /\ dispatched' = FALSE
    /\ UNCHANGED started

Next == Startup \/ Webhook \/ Health \/ Finish

Spec == Init /\ [][Next]_vars

----------------------------------------------------------------------------
(* Properties                                                              *)

\* sub occurs in s
Contains(s, sub) ==
    \E i \in 1..(Len(s) - Len(sub) + 1) : SubSeq(s, i, i + Len(sub) - 1) = sub

\* the last operation was a POST / with a JSON object that has a key
ObjectRequest == op = "webhook" /\ request.kind = "object" /\ request.truthy

\* the last operation was a POST / with a JSON object whose text is a string
TextRequest == ObjectRequest /\ request.textKind = "string"

(* C1: every POST to the root path, whatever its body and whatever the     *)
(* command does, is answered with HTTP 200 and a status of "ok" or         *)
(* "ignored"; the handler never ends in an unhandled exception.            *)
C1_AlwaysAcknowledged ==
    op = "webhook" =>
        /\ raised = NONE
        /\ response.code = 200
        /\ response.status \in {"ok", "ignored"}

(* C2: a message from a non-bot sender whose text is "!run " followed by   *)
(* an argument that is empty after trimming gets the usage string as the   *)
(* reply and runs nothing; it is not silently ignored.                     *)
C2_UsageOnEmptyArgument ==
    ( /\ TextRequest
      /\ request.sender # "bot"
      /\ StartsWith(request.text, BANG_RUN)
      /\ Strip(DropFirst(request.text, 5)) = <<>> )
    => /\ sends = <<USAGE_TEXT>>
       /\ Len(posts) = 1
       /\ execs = <<>>

C3_Marker ==
    <<"\n", "ELLIPSIS", "(", "t", "r", "u", "n", "c", "a", "t", "e", "d",
      ")">>

(* C3: every text the Message Sink delivers has at most 1000 characters;   *)
(* a composed text of at most 950 characters is delivered unchanged, a     *)
(* longer one as its first 950 characters followed by "\n…(truncated)".    *)
C3_DeliveredTextBounded ==
    /\ Len(posts) = Len(sends)
    /\ \A i \in 1..Len(posts) :
          /\ Len(posts[i]) <= 1000
          /\ Len(sends[i]) <= 950 => posts[i] = sends[i]
          /\ Len(sends[i]) > 950 =>
                posts[i] = SubSeq(sends[i], 1, 950) \o C3_Marker

\* a reply of 951 characters was composed and delivered cut, with the marker
C3_Witness ==
    /\ op = "webhook"
    /\ Len(sends) = 1
    /\ Len(sends[1]) = 951
    /\ Len(posts[1]) = 963

(* C4: an inbound event whose text does not start with "!" (whitespace     *)
(* before a "!" included) triggers no command: nothing is sent, nothing is *)
(* executed, the temperature is not queried.                               *)
C4_NoBangNoCommand ==
    ( /\ ObjectRequest
      /\ ~(request.textKind = "string" /\ request.text # <<>>
           /\ Head(request.text) = "!") )
    => /\ ~dispatched
       /\ sends = <<>>
       /\ posts = <<>>
       /\ execs = <<>>
       /\ procs = {}
       /\ probes = 0

\* " !help" from a user was acknowledged and nothing was done
C4_Witness ==
    /\ TextRequest
    /\ request.sender = "user"
    /\ request.text = <<" ">> \o BANG_HELP
    /\ response.status = "ok"
    /\ posts = <<>>

(* C5: an inbound event with sender_type "bot" never reaches the           *)
(* dispatcher, whatever its text: nothing is sent and nothing is executed. *)
C5_BotNeverDispatched ==
    (ObjectRequest /\ request.sender = "bot")
    => /\ ~dispatched
       /\ sends = <<>>
       /\ posts = <<>>
       /\ execs = <<>>
       /\ procs = {}
       /\ probes = 0
       /\ response.code = 200
       /\ response.status = "ignored"

\* a bot's "!run ls" was ignored
C5_Witness ==
    /\ TextRequest
    /\ request.sender = "bot"
    /\ request.text = BANG_RUN \o <<"l", "s">>
    /\ response.reason = "bot message"
    /\ execs = <<>>

\* the last operation ran a command whose process did not end in time
TimedOutRun == op = "webhook" /\ execs # <<>> /\ env.shell.kind = "TimeoutExpired"

\* "Command timed out after <timeoutSeconds>s."
C6_Report ==
    <<"C", "o", "m", "m", "a", "n", "d", " ", "t", "i", "m", "e", "d", " ",
      "o", "u", "t", " ", "a", "f", "t", "e", "r", " ">>
    \o IntToStr(CMD_TIMEOUT) \o <<"s", ".">>

\* the reply composed for a command that timed out
C6_Reply(command) ==
    <<"$", " ">> \o command \o <<"\n", "STOPWATCH", " ">> \o C6_Report

\* text holds nothing of what the process wrote before the timeout
C6_NoOutput(text) ==
    LET output == Strip(env.shell.stdout)
        errors == Strip(env.shell.stderr)
    IN  /\ output # <<>> => ~Contains(text, output)
        /\ errors # <<>> => ~Contains(text, errors)

(* C6 as stated: when a !run command's process does not end within the    *)
(* timeout, the reply for that command carries the report "Command timed   *)
(* out after 30s." and none of the output produced before the timeout.     *)
C6_ReplyCarriesReport ==
    TimedOutRun =>
        /\ Len(posts) = 1
        /\ Contains(posts[1], C6_Report)
        /\ C6_NoOutput(posts[1])

(* C6, amended: when a !run command's process does not end within the     *)
(* timeout, the reply composed is "$ <command>", a newline and the report  *)
(* "⏱ Command timed out after 30s.", with none of the output produced      *)
(* before the timeout; it is delivered whole when it has at most 950       *)
(* characters and, like every message, cut to its first 950 characters     *)
(* and the truncation marker otherwise.                                    *)
C6_TimeoutReply ==
    TimedOutRun =>
        /\ Len(execs) = 1
        /\ sends = <<C6_Reply(execs[1])>>
        /\ posts = << IF Len(sends[1]) > 950
                      THEN SubSeq(sends[1], 1, 950) \o C3_Marker
                      ELSE sends[1] >>
        /\ Len(sends[1]) <= 950 => Contains(posts[1], C6_Report)
        /\ C6_NoOutput(posts[1])

\* "ls" timed out after writing "42" and the reply is the report alone
C6_Witness ==
    /\ TimedOutRun
    /\ execs = << <<"l", "s">> >>
    /\ env.shell.stdout = <<"4", "2", "\n">>
    /\ env.shell.stderr # <<>>
    /\ posts = <<C6_Reply(<<"l", "s">>)>>

(* C7: on the timeout path, when the executor returns, the shell and every *)
(* process it started have been terminated and reaped: no process of the   *)
(* command is still running.                                               *)
C7_NoProcessLeftRunning ==
    TimedOutRun => \A p \in procs : p.state = "reaped"

(* C8: a failed delivery (network error or timeout of the post) is logged  *)
(* and swallowed by send_message: the handler does what it does when the   *)
(* delivery succeeds (one post, no retry, no further message) and the      *)
(* webhook answers "ok".                                                   *)
C8_DeliveryFailureSwallowed ==
    (op = "webhook" /\ env.delivery \in {"ConnectionError", "Timeout"})
    => LET good == groupme_webhook(request, [env EXCEPT !.delivery = "ok"])
       IN  /\ raised = NONE
           /\ response.code = 200
           /\ response.status = "ok"
           /\ Len(posts) = 1
           /\ log = <<"Failed to send GroupMe message">>
           /\ sends = good.eff.sends
           /\ posts = good.eff.posts
           /\ execs = good.eff.execs
           /\ response = good.response

\* the reply to a command could not be delivered for a connection error
C8_Witness ==
    /\ op = "webhook"
    /\ env.delivery = "ConnectionError"
    /\ Len(execs) = 1
    /\ Len(posts) = 1
    /\ response.status = "ok"

\* the variant of a trimmed text, matched in the order !help, !temp, !run
C9_Variant(t) ==
    IF t = <<"!", "h", "e", "l", "p">> THEN "Help"
    ELSE IF t = <<"!", "t", "e", "m", "p">> THEN "Temperature"
    ELSE IF Len(t) >= 5 /\ SubSeq(t, 1, 5) = <<"!", "r", "u", "n", " ">>
    THEN "Run"
    ELSE "Ignore"

(* C9: an inbound text is one of Help, Temperature, Run, Ignore, matched   *)
(* in that order on the trimmed text; one message causes at most one shell *)
(* execution and at most one outbound message, an Ignore message neither.  *)
C9_OneVariantPerMessage ==
    op = "webhook" =>
        /\ Len(execs) <= 1
        /\ Len(sends) <= 1
        /\ Len(posts) <= 1
        /\ ~dispatched => (sends = <<>> /\ execs = <<>> /\ probes = 0)
        /\ dispatched =>
             LET t == Strip(request.text)
                 v == C9_Variant(t)
             IN  /\ v = "Help" =>
                       sends = <<HELP_TEXT>> /\ execs = <<>> /\ probes = 0
                 /\ v = "Temperature" =>
                       /\ probes = 1
                       /\ execs = <<>>
                       /\ raised = NONE => Len(sends) = 1
                 /\ v = "Run" =>
                       /\ Len(sends) = 1
                       /\ probes = 0
                       /\ execs # <<>> => execs[1] = Strip(DropFirst(t, 5))
                 /\ v = "Ignore" =>
                       sends = <<>> /\ execs = <<>> /\ probes = 0

\* "!run  echo hi " ran "echo hi" once and one reply was posted
C9_Witness ==
    /\ TextRequest
    /\ dispatched
    /\ C9_Variant(Strip(request.text)) = "Run"
    /\ execs = << <<"e", "c", "h", "o", " ", "h", "i">> >>
    /\ Len(posts) = 1

(* C10: the temperature query never raises: whatever the primary probe     *)
(* does (missing binary, another launch error such as permission denied,   *)
(* timeout, non-zero exit) a !temp command yields a string to send.        *)
C10_TemperatureNeverRaises ==
    (op = "webhook" /\ probes > 0) => (raised = NONE /\ Len(sends) = 1)

====
